---- MODULE Spec2Model ----
(***************************************************************************)
(* A model of the Langflow frontend slice: the i18n store and the locale   *)
(* hooks, the health-check error banner, the no-input chat view, the       *)
(* publish dropdown of the flow toolbar, the admin page and the            *)
(* switch-locale mutation.  Every component is modelled from its source;   *)
(* each has its own specification over the shared variables.               *)
(***************************************************************************)
EXTENDS Integers, Sequences, FiniteSets, TLC

VARIABLES
    \* ---- i18n store, App effect and locale hooks
    navigatorLanguage,  \* navigator.language || navigator.languages[0]
    localStorage,       \* window.localStorage item 'language', when present
    lang,               \* useI18nStore.lang
    i18nLanguage,       \* the language i18next translates into
    appEffectLang,      \* the [lang] dependency App's effect last ran with
    memo,               \* per locale hook: what its useMemo cell holds
    renderedT,          \* per locale hook: the t of its latest render
    \* ---- GenericErrorComponent
    genericErrorProps,  \* { healthCheckTimeout, fetching, retry } it was given
    genericErrorView,   \* the element it returned
    \* ---- NoInputView
    isBuilding,         \* the isBuilding prop
    \* ---- PublishDropdown and PlaygroundButton
    flows,              \* useFlowsManagerStore.flows, when defined
    currentFlow,        \* the current flow, when defined
    hasIO,              \* useFlowStore.hasIO
    playgroundOpen,     \* the open state of the IO modal
    patchInFlight,      \* update-flow requests awaiting their response
    \* ---- AdminPage
    inputValue,         \* the search box
    size,               \* page size
    index,              \* page index
    totalRowsCount,
    userList,           \* userList.current: the page last fetched
    filterUserList,     \* the users displayed
    adminInFlight,      \* requests of the page awaiting their response
    createdUsers,       \* users the backend created for add requests
    \* ---- SignUp
    inputState,         \* { password, cnfPassword, username } of the form
    isDisabled,         \* the disabled state of the submit button
    signUpEffect,       \* a render was committed whose effect has not run
    \* ---- useSwitchLocale
    slMutations,        \* the invocations of the mutation, in order
    httpLog,            \* the requests it sent, each with its response
    \* ---- alert store
    successData,        \* the latest success alert, when one was raised
    errorData,          \* the latest error alert, when one was raised
    \* ---- a record of the latest call made to a store setter or a prop
    lastCall

localeVars == << navigatorLanguage, localStorage, lang, i18nLanguage,
                 appEffectLang, memo, renderedT >>

viewVars == << genericErrorProps, genericErrorView, isBuilding >>

publishVars == << flows, currentFlow, hasIO, playgroundOpen, patchInFlight >>

adminVars == << inputValue, size, index, totalRowsCount, userList,
               filterUserList, adminInFlight, createdUsers >>

switchLocaleVars == << slMutations, httpLog >>

signUpVars == << inputState, isDisabled, signUpEffect >>

alertVars == << successData, errorData >>

vars == << navigatorLanguage, localStorage, lang, i18nLanguage,
           appEffectLang, memo, renderedT,
           genericErrorProps, genericErrorView, isBuilding,
           flows, currentFlow, hasIO, playgroundOpen, patchInFlight,
           inputValue, size, index, totalRowsCount, userList,
           filterUserList, adminInFlight, createdUsers,
           inputState, isDisabled, signUpEffect, slMutations, httpLog,
           successData, errorData, lastCall >>

PAGINATION_SIZE == 12
PAGINATION_PAGE == 1

\* A value that may be absent (null, undefined) is a sequence of at most
\* one element.
None == << >>
Some(v) == << v >>

\* No call yet; a call is recorded with the list of its arguments.
NoCall == [fn |-> "none", args |-> << >>]

(***************************************************************************)
(* Strings whose characters the code inspects (language tags, JSON text)   *)
(* are sequences of one-character strings.                                 *)
(***************************************************************************)
EN == << "e", "n" >>
ZH == << "z", "h" >>

\* type Language = 'en' | 'zh'
Language == { EN, ZH }

\* Language tags a browser may report.
BrowserLanguages ==
    { << "e", "n", "-", "U", "S" >>, << "z", "h", "-", "C", "N" >>,
      << "f", "r", "-", "F", "R" >>, << "e", "n" >>, << "d", "e" >> }

Min(S) == CHOOSE x \in S : \A y \in S : x <= y

\* String.prototype.split(sep)[0]: the text before the first separator.
SplitFirst(s, sep) ==
    LET at == { i \in 1..Len(s) : s[i] = sep }
    IN  IF at = {} THEN s ELSE SubSeq(s, 1, Min(at) - 1)

\* JSON.stringify of a string: quoted, with quote and backslash escaped.
RECURSIVE JSONescape(_)
JSONescape(s) ==
    IF s = << >> THEN << >>
    ELSE (IF Head(s) \in { "\"", "\\" } THEN << "\\", Head(s) >>
                                         ELSE << Head(s) >>)
         \o JSONescape(Tail(s))

JSONstringify(s) == << "\"" >> \o JSONescape(s) \o << "\"" >>

\* JSON.parse of a text: a string literal yields its characters; a text
\* that is no string literal is not a value a language can be.
RECURSIVE JSONunescape(_)
JSONunescape(s) ==
    IF s = << >> THEN << >>
    ELSE IF Head(s) = "\\" /\ Len(s) >= 2
         THEN << s[2] >> \o JSONunescape(Tail(Tail(s)))
         ELSE << Head(s) >> \o JSONunescape(Tail(s))

JSONparse(x) ==
    IF Len(x) >= 2 /\ x[1] = "\"" /\ x[Len(x)] = "\""
    THEN JSONunescape(SubSeq(x, 2, Len(x) - 1))
    ELSE << "S", "y", "n", "t", "a", "x", "E", "r", "r", "o", "r" >>

(***************************************************************************)
(* The i18n store.                                                         *)
(***************************************************************************)
\* What a previous session of the application left under 'language'.
StoredValues == { None } \cup { Some(JSONstringify(l)) : l \in Language }

\* The initializer of useI18nStore.lang.
InitialLang(stored, browserLanguage) ==
    IF stored # None
    THEN JSONparse(stored[1])
    ELSE LET detectedLanguage == SplitFirst(browserLanguage, "-")
         IN  detectedLanguage

\* A variant that stores the language as it is, not its JSON encoding.
setLanguageStored_Raw(l) == l

\* What setLanguage writes to the localStorage.
setLanguageStored(l) == JSONstringify(l)

\* useI18nStore.setLanguage(lang)
setLanguage(l) ==
    /\ localStorage' = Some(setLanguageStored(l))
    /\ lang' = l
    /\ lastCall' = [fn |-> "setLanguage", args |-> << l >>]

\* LangflowCounts: the two items of the language menu.
LangflowCountsClick(l) ==
    /\ lang # l
    /\ setLanguage(l)
    /\ UNCHANGED << navigatorLanguage, i18nLanguage, appEffectLang, memo,
                    renderedT, viewVars, publishVars, adminVars, switchLocaleVars, signUpVars,
                    alertVars >>

\* App: useEffect(() => { if (lang) i18n.changeLanguage(lang) }, [lang])
AppLangEffect ==
    /\ appEffectLang # Some(lang)
    /\ appEffectLang' = Some(lang)
    /\ i18nLanguage' = IF lang # << >> THEN lang ELSE i18nLanguage
    /\ UNCHANGED << navigatorLanguage, localStorage, lang, memo, renderedT,
                    lastCall, viewVars, publishVars, adminVars, switchLocaleVars, signUpVars, alertVars >>

(***************************************************************************)
(* The locale hooks.  t(key) in language l is the pair << l, key >>: the   *)
(* resource bundles are outside this slice, so a translation is named by   *)
(* the language and the key it was looked up with.                         *)
(***************************************************************************)
Translate(l, key) == << l, key >>

ENABLE_KNOWLEDGE_BASES == TRUE

SidebarCategoriesKeys ==
    << "flow.sidebar.components.savedComponents",
       "flow.sidebar.components.inputOutput",
       "flow.sidebar.components.agents",
       "flow.sidebar.components.models",
       "flow.sidebar.components.data" >>
    \o (IF ENABLE_KNOWLEDGE_BASES
          THEN << "flow.sidebar.components.knowledgeBases" >>
          ELSE << >>)
    \o << "flow.sidebar.components.vectorstores",
       "flow.sidebar.components.processing",
       "flow.sidebar.components.logic",
       "flow.sidebar.components.helpers",
       "flow.sidebar.components.inputs",
       "flow.sidebar.components.outputs",
       "flow.sidebar.components.prompts",
       "flow.sidebar.components.chains",
       "flow.sidebar.components.documentloaders",
       "flow.sidebar.components.linkExtractors",
       "flow.sidebar.components.outputParsers",
       "flow.sidebar.components.prototypes",
       "flow.sidebar.components.retrievers",
       "flow.sidebar.components.textsplitters",
       "flow.sidebar.components.toolkits",
       "flow.sidebar.components.tools" >>

SidebarBundlesKeys ==
    << "flow.sidebar.bundles.aimlApi",
       "flow.sidebar.bundles.agentql",
       "flow.sidebar.bundles.languageModels",
       "flow.sidebar.bundles.embeddings",
       "flow.sidebar.bundles.memories",
       "flow.sidebar.bundles.amazon",
       "flow.sidebar.bundles.anthropic",
       "flow.sidebar.bundles.apify",
       "flow.sidebar.bundles.arxiv",
       "flow.sidebar.bundles.assemblyai",
       "flow.sidebar.bundles.azure",
       "flow.sidebar.bundles.baidu",
       "flow.sidebar.bundles.bing",
       "flow.sidebar.bundles.cassandra",
       "flow.sidebar.bundles.chroma",
       "flow.sidebar.bundles.clickhouse",
       "flow.sidebar.bundles.cleanlab",
       "flow.sidebar.bundles.cloudflare",
       "flow.sidebar.bundles.cohere",
       "flow.sidebar.bundles.composio",
       "flow.sidebar.bundles.confluence",
       "flow.sidebar.bundles.couchbase",
       "flow.sidebar.bundles.crewai",
       "flow.sidebar.bundles.datastax",
       "flow.sidebar.bundles.deepseek",
       "flow.sidebar.bundles.docling",
       "flow.sidebar.bundles.duckduckgo",
       "flow.sidebar.bundles.elastic",
       "flow.sidebar.bundles.exa",
       "flow.sidebar.bundles.faiss",
       "flow.sidebar.bundles.firecrawl",
       "flow.sidebar.bundles.git",
       "flow.sidebar.bundles.glean",
       "flow.sidebar.bundles.gmail",
       "flow.sidebar.bundles.google",
       "flow.sidebar.bundles.groq",
       "flow.sidebar.bundles.homeAssistant",
       "flow.sidebar.bundles.huggingface",
       "flow.sidebar.bundles.ibm",
       "flow.sidebar.bundles.icosacomputing",
       "flow.sidebar.bundles.jigsawstack",
       "flow.sidebar.bundles.langchain",
       "flow.sidebar.bundles.langwatch",
       "flow.sidebar.bundles.lmstudio",
       "flow.sidebar.bundles.maritalk",
       "flow.sidebar.bundles.mem0",
       "flow.sidebar.bundles.memories",
       "flow.sidebar.bundles.milvus",
       "flow.sidebar.bundles.mistral",
       "flow.sidebar.bundles.mongodb",
       "flow.sidebar.bundles.needle",
       "flow.sidebar.bundles.notdiamond",
       "flow.sidebar.bundles.notion",
       "flow.sidebar.bundles.novita",
       "flow.sidebar.bundles.nvidia",
       "flow.sidebar.bundles.olivya",
       "flow.sidebar.bundles.ollama",
       "flow.sidebar.bundles.openai",
       "flow.sidebar.bundles.openrouter",
       "flow.sidebar.bundles.perplexity",
       "flow.sidebar.bundles.pgvector",
       "flow.sidebar.bundles.pinecone",
       "flow.sidebar.bundles.qdrant",
       "flow.sidebar.bundles.redis",
       "flow.sidebar.bundles.sambanova",
       "flow.sidebar.bundles.scrapegraph",
       "flow.sidebar.bundles.searchapi",
       "flow.sidebar.bundles.serpapi",
       "flow.sidebar.bundles.serper",
       "flow.sidebar.bundles.supabase",
       "flow.sidebar.bundles.tavily",
       "flow.sidebar.bundles.twelvelabs",
       "flow.sidebar.bundles.unstructured",
       "flow.sidebar.bundles.upstash",
       "flow.sidebar.bundles.vectara",
       "flow.sidebar.bundles.vectorStores",
       "flow.sidebar.bundles.weaviate",
       "flow.sidebar.bundles.vertexai",
       "flow.sidebar.bundles.wikipedia",
       "flow.sidebar.bundles.wolframalpha",
       "flow.sidebar.bundles.xai",
       "flow.sidebar.bundles.yahooFinance",
       "flow.sidebar.bundles.youtube",
       "flow.sidebar.bundles.zep" >>

ShortcutsLocaleKeys ==
    << "shortcuts.controls",
       "shortcuts.searchComponentsSidebar",
       "shortcuts.minimize",
       "shortcuts.code",
       "shortcuts.copy",
       "shortcuts.duplicate",
       "shortcuts.componentShare",
       "shortcuts.docs",
       "shortcuts.changesSave",
       "shortcuts.saveComponent",
       "shortcuts.delete",
       "shortcuts.openPlayground",
       "shortcuts.undo",
       "shortcuts.redo",
       "shortcuts.redoAlt",
       "shortcuts.group",
       "shortcuts.cut",
       "shortcuts.paste",
       "shortcuts.api",
       "shortcuts.download",
       "shortcuts.update",
       "shortcuts.freezePath",
       "shortcuts.flowShare",
       "shortcuts.play",
       "shortcuts.outputInspection",
       "shortcuts.toolMode",
       "shortcuts.toggleSidebar" >>

MessageLocaleKeys ==
    << "messages.alertMessage",
       "messages.noData",
       "messages.noColumnDefinitionTitle",
       "messages.noColumnDefinitionDescription",
       "messages.fsErrorText",
       "messages.errorUpdatingComponent",
       "messages.titleErrorUpdatingComponent",
       "messages.emptyInputSend",
       "messages.emptyOutputSend",
       "messages.csvViewErrorTitle",
       "messages.csvNoDataError",
       "messages.pdfViewConstant",
       "messages.csvError",
       "messages.pdfLoadErrorTitle",
       "messages.pdfCheckFlow",
       "messages.pdfErrorTitle",
       "messages.pdfLoadError",
       "messages.imgViewConstant",
       "messages.imgViewErrorMsg",
       "messages.imgViewErrorTitle",
       "messages.flowBuildFailed",
       "messages.flowBuiltSuccessfully" >>

FormLocaleKeys ==
    << "forms.defaultPlaceholder",
       "forformsm.receivingInputValue",
       "forms.selectOptions",
       "forms.defaultToolsetPlaceholder",
       "forms.editTextPlaceholder",
       "forms.editTextModalTitle",
       "forms.textDialogTitle" >>

Hooks == { "useSidebarCategories", "useSidebarBundles", "useShortcutsLocale",
           "useMessageLocale", "useFormLocale" }

HookKeys(h) ==
    CASE h = "useSidebarCategories" -> SidebarCategoriesKeys
      [] h = "useSidebarBundles"    -> SidebarBundlesKeys
      [] h = "useShortcutsLocale"   -> ShortcutsLocaleKeys
      [] h = "useMessageLocale"     -> MessageLocaleKeys
      [] h = "useFormLocale"        -> FormLocaleKeys

\* The dependency array each hook hands to useMemo; t is a new function
\* for every language, so its identity is the language.
HookDeps(h, tfn) ==
    CASE h = "useSidebarCategories" -> << >>
      [] h = "useSidebarBundles"    -> << >>
      [] h = "useShortcutsLocale"   -> << tfn >>
      [] h = "useMessageLocale"     -> << >>
      [] h = "useFormLocale"        -> << >>

\* The factory of the hook's useMemo: every key through t.
HookFactory(h, tfn) ==
    [ i \in 1..Len(HookKeys(h)) |-> Translate(tfn, HookKeys(h)[i]) ]

\* useMemo(factory, deps): the cell is kept while the dependencies are the
\* same as at the previous render, and recomputed otherwise.  A cell holds
\* its dependencies and the t its factory ran with; its value is what the
\* factory yields with that t.
useMemo(cell, h, tfn) ==
    IF cell.deps = HookDeps(h, tfn)
    THEN cell
    ELSE [deps |-> HookDeps(h, tfn), factoryT |-> tfn]

\* The first render of a component that uses hook h.
MountHook(h, tfn) == [deps |-> HookDeps(h, tfn), factoryT |-> tfn]

\* What hook h returns: the value in its useMemo cell.
HookValue(h) == HookFactory(h, memo[h].factoryT)

\* A component that uses hook h renders again after the language changed.
RenderHook(h) ==
    /\ renderedT[h] # i18nLanguage
    /\ renderedT' = [renderedT EXCEPT ![h] = i18nLanguage]
    /\ memo' = [memo EXCEPT ![h] = useMemo(memo[h], h, i18nLanguage)]
    /\ UNCHANGED << navigatorLanguage, localStorage, lang, i18nLanguage,
                    appEffectLang, lastCall, viewVars, publishVars, adminVars, switchLocaleVars, signUpVars, alertVars >>

(***************************************************************************)
(* GenericErrorComponent: the banner for a health-check status.            *)
(***************************************************************************)
t(key) == Translate(i18nLanguage, key)

HealthStatuses == { "serverDown", "timeout", "unhealthy", "Timeout", "" }

RetryHandlers == { "retryA", "retryB" }

Fragment == [component |-> "Fragment"]

\* A variant with a case that falls through: "serverDown" gets the banner
\* of "timeout".
GenericErrorComponent_FallsThrough(healthCheckTimeout, fetching, retry) ==
    IF healthCheckTimeout \in { "serverDown", "timeout" }
    THEN [component       |-> "TimeoutErrorComponent",
          description     |-> t("constants.timeout.timeout"),
          message         |-> t("constants.timeout.timeoutDescription"),
          openModal       |-> TRUE,
          setRetry        |-> retry,
          isLoadingHealth |-> fetching]
    ELSE Fragment

GenericErrorComponent(healthCheckTimeout, fetching, retry) ==
    CASE healthCheckTimeout = "serverDown" ->
            [component       |-> "CustomFetchErrorComponent",
             description     |-> t("constants.error.fetchDescription"),
             message         |-> t("constants.error.fetch"),
             openModal       |-> TRUE,
             setRetry        |-> retry,
             isLoadingHealth |-> fetching]
      [] healthCheckTimeout = "timeout" ->
            [component       |-> "TimeoutErrorComponent",
             description     |-> t("constants.timeout.timeout"),
             message         |-> t("constants.timeout.timeoutDescription"),
             openModal       |-> TRUE,
             setRetry        |-> retry,
             isLoadingHealth |-> fetching]
      [] OTHER -> Fragment

\* The parent renders the component with the props p.
RenderGenericError(p) ==
    /\ genericErrorProps' = p
    /\ genericErrorView' =
           GenericErrorComponent(p.healthCheckTimeout, p.fetching, p.retry)
    /\ UNCHANGED << localeVars, isBuilding, lastCall, publishVars, adminVars, switchLocaleVars, signUpVars,
                    alertVars >>

GenericErrorPropsSet ==
    [healthCheckTimeout : HealthStatuses, fetching : BOOLEAN,
     retry : RetryHandlers]

(***************************************************************************)
(* NoInputView: the run button or the stop button.                         *)
(***************************************************************************)
\* A variant with the condition inverted.
NoInputView_Inverted(building) ==
    IF building
    THEN { [testid  |-> "button-send",
            onClick |-> [fn |-> "sendMessage", args |-> << [repeat |-> 1] >>]] }
    ELSE { [testid  |-> "button-stop",
            onClick |-> [fn |-> "stopBuilding", args |-> << >>]] }

\* The buttons the view holds, each with the call its onClick makes.
NoInputView(building) ==
    IF ~building
    THEN { [testid  |-> "button-send",
            onClick |-> [fn |-> "sendMessage", args |-> << [repeat |-> 1] >>]] }
    ELSE { [testid  |-> "button-stop",
            onClick |-> [fn |-> "stopBuilding", args |-> << >>]] }

\* A click on the button with the given data-testid.
NoInputClick(testid) ==
    /\ \E b \in NoInputView(isBuilding) :
         /\ b.testid = testid
         /\ lastCall' = b.onClick
    /\ UNCHANGED << localeVars, viewVars, publishVars, adminVars, switchLocaleVars, signUpVars, alertVars >>

\* The parent passes another isBuilding: a build started or ended.
SetIsBuilding(b) ==
    /\ isBuilding # b
    /\ isBuilding' = b
    /\ UNCHANGED << localeVars, genericErrorProps, genericErrorView,
                    lastCall, publishVars, adminVars, switchLocaleVars, signUpVars, alertVars >>

\* The parts of the application a specification leaves out stay as here.
IdleLocale ==
    /\ navigatorLanguage = EN
    /\ localStorage = None
    /\ lang = EN
    /\ i18nLanguage = EN
    /\ appEffectLang = Some(EN)
    /\ memo = [h \in Hooks |-> MountHook(h, EN)]
    /\ renderedT = [h \in Hooks |-> EN]

(***************************************************************************)
(* PublishDropdown: the publish switch of the flow toolbar, and the        *)
(* PlaygroundButton beside it.  A flow is { id, access_type }.             *)
(***************************************************************************)
FlowIds == { "f1", "f2" }

AccessTypes == { "PUBLIC", "PRIVATE" }

Flows == [id : FlowIds, access_type : AccessTypes]

\* Messages of the errors a failed update request is rejected with, each a
\* text of one line.
ErrorMessages == { << "Network Error" >>,
                   << "Request failed with status code 500" >> }

\* Requests awaiting their response, over all bounds of the model.
MaxInFlight == 2

\* const flowId = currentFlow?.id
flowId == IF currentFlow = None THEN None ELSE Some(currentFlow[1].id)

\* const isPublished = currentFlow?.access_type === "PUBLIC"
isPublished == currentFlow # None /\ currentFlow[1].access_type = "PUBLIC"

\* A variant without the disabled prop.
PublishDisabled_Never == FALSE

\* The disabled prop of the shareable-playground item and of the switch.
PublishDisabled == ~hasIO

\* <Switch data-testid="publish-switch" checked disabled onClick>
PublishSwitch == [checked |-> isPublished, disabled |-> PublishDisabled]

\* <DropdownMenuItem data-testid="shareable-playground" disabled>
ShareablePlaygroundItem == [disabled |-> PublishDisabled]

\* A variant that asks for the access type the flow already has.
PatchAccessType_Same(checked) == IF checked THEN "PUBLIC" ELSE "PRIVATE"

\* access_type: checked ? "PRIVATE" : "PUBLIC"
PatchAccessType(checked) == IF checked THEN "PRIVATE" ELSE "PUBLIC"

\* A variant that updates the current flow before the response.
handlePublishedSwitch_Optimistic(checked) ==
    /\ patchInFlight' = Append(patchInFlight,
           [id          |-> IF flowId = None THEN "" ELSE flowId[1],
            access_type |-> PatchAccessType(checked),
            flows       |-> flows])
    /\ currentFlow' =
           IF currentFlow = None
           THEN None
           ELSE Some([currentFlow[1] EXCEPT
                        !.access_type = PatchAccessType(checked)])
    /\ UNCHANGED << flows, hasIO, playgroundOpen, alertVars >>

\* handlePublishedSwitch(checked): mutateAsync(payload, callbacks).  The
\* callbacks close over the flows of the render the click happened in.
handlePublishedSwitch(checked) ==
    /\ patchInFlight' = Append(patchInFlight,
           [id          |-> IF flowId = None THEN "" ELSE flowId[1],
            access_type |-> PatchAccessType(checked),
            flows       |-> flows])
    /\ UNCHANGED << flows, currentFlow, hasIO, playgroundOpen, alertVars >>

\* A click on the publish switch; a disabled switch takes no click.
ClickPublishSwitch ==
    /\ ~PublishSwitch.disabled
    /\ Len(patchInFlight) < MaxInFlight
    /\ handlePublishedSwitch(isPublished)
    /\ UNCHANGED << localeVars, viewVars, adminVars, switchLocaleVars, signUpVars, lastCall >>

\* The sequence s without its i-th element.
RemoveAt(s, i) == SubSeq(s, 1, i - 1) \o SubSeq(s, i + 1, Len(s))

\* A variant of onSuccess that puts the updated flow first in the list.
PatchOnSuccess_MoveFirst(req, updatedFlow) ==
    IF req.flows # None
    THEN /\ flows' = Some(<< updatedFlow >> \o
                          SelectSeq(req.flows[1],
                                    LAMBDA flow : flow.id # updatedFlow.id))
         /\ currentFlow' = Some(updatedFlow)
         /\ UNCHANGED << hasIO, playgroundOpen, alertVars >>
    ELSE /\ errorData' = Some([title |-> t("flow.share.error.saveFailedTitle"),
                               list  |-> << t("flow.share.error.flowsUndefined") >>])
         /\ UNCHANGED << flows, currentFlow, hasIO, playgroundOpen,
                         successData >>

\* onSuccess: (updatedFlow) => ...
PatchOnSuccess(req, updatedFlow) ==
    IF req.flows # None
    THEN /\ flows' = Some([ k \in 1..Len(req.flows[1]) |->
                              IF req.flows[1][k].id = updatedFlow.id
                              THEN updatedFlow
                              ELSE req.flows[1][k] ])
         /\ currentFlow' = Some(updatedFlow)
         /\ UNCHANGED << hasIO, playgroundOpen, alertVars >>
    ELSE /\ errorData' = Some([title |-> t("flow.share.error.saveFailedTitle"),
                               list  |-> << t("flow.share.error.flowsUndefined") >>])
         /\ UNCHANGED << flows, currentFlow, hasIO, playgroundOpen,
                         successData >>

\* onError: (e) => ...
PatchOnError(req, message) ==
    /\ errorData' = Some([title |-> t("flow.share.error.saveFailedTitle"),
                          list  |-> << message >>])
    /\ UNCHANGED << flows, currentFlow, hasIO, playgroundOpen, successData >>

\* The i-th request is answered with the updated flow.
PatchSuccess(i) ==
    /\ i \in 1..Len(patchInFlight)
    /\ patchInFlight[i].id \in FlowIds
    /\ patchInFlight' = RemoveAt(patchInFlight, i)
    /\ PatchOnSuccess(patchInFlight[i],
                      [id          |-> patchInFlight[i].id,
                       access_type |-> patchInFlight[i].access_type])
    /\ UNCHANGED << localeVars, viewVars, adminVars, switchLocaleVars, signUpVars, lastCall >>

\* The i-th request fails with an error carrying the message.
PatchError(i, message) ==
    /\ i \in 1..Len(patchInFlight)
    /\ patchInFlight' = RemoveAt(patchInFlight, i)
    /\ PatchOnError(patchInFlight[i], message)
    /\ UNCHANGED << localeVars, viewVars, adminVars, switchLocaleVars, signUpVars, lastCall >>

\* The flow on the canvas gains or loses its chat input and output.
SetHasIO(b) ==
    /\ hasIO # b
    /\ hasIO' = b
    /\ UNCHANGED << flows, currentFlow, playgroundOpen, patchInFlight,
                    localeVars, viewVars, adminVars, switchLocaleVars, signUpVars, alertVars, lastCall >>

\* PlaygroundButton: the IO modal around the active button, or the
\* disabled button inside a tooltip.
PlaygroundButton(io) ==
    IF io
    THEN [component |-> "CustomIOModal", disable |-> ~io,
          trigger |-> "playground-btn-flow-io"]
    ELSE [component |-> "ShadTooltip", content |-> t("flow.panel.playground.tooltip"),
          child |-> "playground-btn-flow"]

\* A click on the trigger of the IO modal: setOpen(true).
ClickPlayground ==
    /\ PlaygroundButton(hasIO).component = "CustomIOModal"
    /\ ~PlaygroundButton(hasIO).disable
    /\ ~playgroundOpen
    /\ playgroundOpen' = TRUE
    /\ UNCHANGED << flows, currentFlow, hasIO, patchInFlight,
                    localeVars, viewVars, adminVars, switchLocaleVars, signUpVars, alertVars, lastCall >>

\* The IO modal is closed: setOpen(false).
ClosePlayground ==
    /\ playgroundOpen
    /\ playgroundOpen' = FALSE
    /\ UNCHANGED << flows, currentFlow, hasIO, patchInFlight,
                    localeVars, viewVars, adminVars, switchLocaleVars, signUpVars, alertVars, lastCall >>

\* The flow another part of the application adds to the list.
OtherFlow == [id |-> "f3", access_type |-> "PRIVATE"]

\* setFlows called elsewhere in the application: a flow is added to the
\* list.
AddFlow ==
    /\ flows # None
    /\ \A k \in 1..Len(flows[1]) : flows[1][k].id # OtherFlow.id
    /\ flows' = Some(Append(flows[1], OtherFlow))
    /\ UNCHANGED << currentFlow, hasIO, playgroundOpen, patchInFlight,
                    localeVars, viewVars, adminVars, switchLocaleVars, signUpVars,
                    alertVars, lastCall >>

\* setFlows called elsewhere: the k-th flow, the one added there, is
\* removed from the list.
RemoveFlow(k) ==
    /\ flows # None
    /\ k \in 1..Len(flows[1])
    /\ flows[1][k].id = OtherFlow.id
    /\ flows' = Some(RemoveAt(flows[1], k))
    /\ UNCHANGED << currentFlow, hasIO, playgroundOpen, patchInFlight,
                    localeVars, viewVars, adminVars, switchLocaleVars, signUpVars,
                    alertVars, lastCall >>

\* setFlows called elsewhere: the k-th flow, the one added there, is
\* replaced by an updated one.
UpdateFlow(k) ==
    /\ flows # None
    /\ k \in 1..Len(flows[1])
    /\ flows[1][k].id = OtherFlow.id
    /\ flows' = Some([flows[1] EXCEPT ![k].access_type =
                        IF @ = "PUBLIC" THEN "PRIVATE" ELSE "PUBLIC"])
    /\ UNCHANGED << currentFlow, hasIO, playgroundOpen, patchInFlight,
                    localeVars, viewVars, adminVars, switchLocaleVars, signUpVars,
                    alertVars, lastCall >>

(***************************************************************************)
(* AdminPage: the users table, its search box and paginator, and the       *)
(* requests its handlers send.  A user is { id, username, is_active,       *)
(* is_superuser }.  A request in flight is kept with the handler that sent *)
(* it and, when its callbacks call resetFilter, with the size and index of *)
(* the render whose closure sent it.                                       *)
(***************************************************************************)
Alice == [id |-> "u1", username |-> << "A", "l", "i", "c", "e" >>,
          is_active |-> TRUE, is_superuser |-> FALSE]

Bob == [id |-> "u2", username |-> << "b", "o", "b" >>,
        is_active |-> FALSE, is_superuser |-> TRUE]

\* What the users endpoint may answer with.
UsersResponses ==
    { [total_count |-> 2, users |-> << Alice, Bob >>],
      [total_count |-> 1, users |-> << Bob >>] }

\* The detail of an HTTP error response: error.response.data.detail.
ErrorDetails == { "User not found" }

\* Page sizes and indexes the paginator offers.
PageSizes == { 12, 24 }
PageIndexes == { 1, 2 }

\* Texts typed into the search box.
SearchInputs == { << >>, << "B" >> }

\* Requests of the admin page awaiting their response.
MaxAdminInFlight == 1

MutationHandlers == { "handleDeleteUser", "handleEditUser",
                      "handleDisableUser", "handleSuperUserEdit" }

\* String.prototype.toLowerCase, on the letters the model uses.
LowerChar(c) ==
    CASE c = "A" -> "a"
      [] c = "B" -> "b"
      [] OTHER   -> c

toLowerCase(s) == [ i \in 1..Len(s) |-> LowerChar(s[i]) ]

\* String.prototype.includes
includes(s, sub) ==
    \E i \in 1..(Len(s) - Len(sub) + 1) :
        SubSeq(s, i, i + Len(sub) - 1) = sub

\* Array.prototype.filter
RECURSIVE filter(_, _)
filter(list, input) ==
    IF list = << >> THEN << >>
    ELSE (IF includes(toLowerCase(Head(list).username), toLowerCase(input))
          THEN << Head(list) >> ELSE << >>)
         \o filter(Tail(list), input)

\* isPending of useGetUsers: a users request awaits its response.
isPending ==
    \E i \in 1..Len(adminInFlight) :
        adminInFlight[i].handler \in { "getUsers", "handleChangePagination" }

\* The table and the paginator are rendered.
TableShown == ~isPending /\ userList # << >>

\* The closure of the current render.
Closure == [size |-> size, index |-> index]

\* getUsers(), called from a render whose closure is cl.
getUsersRequest(cl) ==
    [handler |-> "getUsers",
     payload |-> [skip |-> cl.size * (cl.index - 1), limit |-> cl.size]]

\* A variant that computes the request from the state of the render.
handleChangePagination_Stale(pageIndex, pageSize) ==
    /\ TableShown
    /\ Len(adminInFlight) < MaxAdminInFlight
    /\ size' = pageSize
    /\ index' = pageIndex
    /\ adminInFlight' = Append(adminInFlight,
           [handler |-> "handleChangePagination",
            payload |-> [skip  |-> size * (index - 1),
                         limit |-> size]])
    /\ UNCHANGED << inputValue, totalRowsCount, userList, filterUserList,
                    alertVars >>
    /\ UNCHANGED << createdUsers, localeVars, viewVars, publishVars,
                    switchLocaleVars, signUpVars, lastCall >>

\* handleChangePagination(pageIndex, pageSize)
handleChangePagination(pageIndex, pageSize) ==
    /\ TableShown
    /\ Len(adminInFlight) < MaxAdminInFlight
    /\ size' = pageSize
    /\ index' = pageIndex
    /\ adminInFlight' = Append(adminInFlight,
           [handler |-> "handleChangePagination",
            payload |-> [skip  |-> pageSize * (pageIndex - 1),
                         limit |-> pageSize]])
    /\ UNCHANGED << inputValue, totalRowsCount, userList, filterUserList,
                    alertVars >>
    /\ UNCHANGED << createdUsers, localeVars, viewVars, publishVars,
                    switchLocaleVars, signUpVars, lastCall >>

\* handleFilterUsers(input)
handleFilterUsers(input) ==
    /\ inputValue' = input
    /\ filterUserList' = IF input = << >>
                         THEN userList
                         ELSE filter(userList, input)
    /\ UNCHANGED << size, index, totalRowsCount, userList, adminInFlight,
                    alertVars >>
    /\ UNCHANGED << createdUsers, localeVars, viewVars, publishVars,
                    switchLocaleVars, signUpVars, lastCall >>

\* The X beside the search box, shown while the input is not empty.
ClearSearch ==
    /\ Len(inputValue) > 0
    /\ inputValue' = << >>
    /\ filterUserList' = userList
    /\ UNCHANGED << size, index, totalRowsCount, userList, adminInFlight,
                    alertVars >>
    /\ UNCHANGED << createdUsers, localeVars, viewVars, publishVars,
                    switchLocaleVars, signUpVars, lastCall >>

\* The request of each handler of a table row, for the user of the row.
handleDeleteUser(user) ==
    [handler |-> "handleDeleteUser",
     payload |-> [user_id |-> user.id],
     closure |-> Closure]

handleEditUser(userId, user) ==
    [handler |-> "handleEditUser",
     payload |-> [user_id |-> userId, user |-> user],
     closure |-> Closure]

\* lodash cloneDeep: a new object with the fields of the value.
cloneDeep(value) == [ f \in DOMAIN value |-> value[f] ]

\* A variant that sends the changed flag alone.
handleDisableUser_FlagOnly(check, userId, user) ==
    [handler |-> "handleDisableUser",
     payload |-> [user_id |-> userId, user |-> [is_active |-> ~check]],
     closure |-> Closure]

handleDisableUser(check, userId, user) ==
    LET userEdit == [cloneDeep(user) EXCEPT !.is_active = ~check]
    IN  [handler |-> "handleDisableUser",
         payload |-> [user_id |-> userId, user |-> userEdit],
         closure |-> Closure]

handleSuperUserEdit(check, userId, user) ==
    LET userEdit == [cloneDeep(user) EXCEPT !.is_superuser = ~check]
    IN  [handler |-> "handleSuperUserEdit",
         payload |-> [user_id |-> userId, user |-> userEdit],
         closure |-> Closure]

\* What the new-user modal hands to onConfirm.
NewUserInputs ==
    { [username |-> << "c", "a", "r", "o", "l" >>, password |-> << "p", "w" >>,
       is_active |-> TRUE, is_superuser |-> FALSE],
      [username |-> << "c", "a", "r", "o", "l" >>, password |-> << "p", "w" >>,
       is_active |-> FALSE, is_superuser |-> TRUE] }

\* The id the backend gives to the user it creates for a username.
NewUserId(username) ==
    IF username = << "c", "a", "r", "o", "l" >> THEN "u3" ELSE "u4"

\* The two requests of handleNewUser: the add request, and the update
\* request its onSuccess sends.
NewUserHandlers == { "handleNewUser", "handleNewUser.onSuccess" }

\* handleNewUser(user): the add request.
handleNewUser(user) ==
    [handler |-> "handleNewUser",
     payload |-> user,
     closure |-> Closure]

\* The new-user modal is confirmed.
NewUser(user) ==
    /\ Len(adminInFlight) < MaxAdminInFlight
    /\ adminInFlight' = Append(adminInFlight, handleNewUser(user))
    /\ UNCHANGED << inputValue, size, index, totalRowsCount, userList,
                    filterUserList, alertVars >>
    /\ UNCHANGED << createdUsers, localeVars, viewVars, publishVars,
                    switchLocaleVars, signUpVars, lastCall >>

\* What the edit modal of a row hands to onConfirm.
EditedUser(user) == [user EXCEPT !.username = user.username \o << "2" >>]

\* The object a row handler was given, once the handler has returned: the
\* two toggles write to their clone, the other two write nothing.
RowUserAfter(handler, user) == user

\* The row of the k-th displayed user: its delete, edit, active and
\* superuser controls, each confirmed in its modal.
RowAction(k, handler) ==
    /\ TableShown
    /\ k \in 1..Len(filterUserList)
    /\ Len(adminInFlight) < MaxAdminInFlight
    /\ LET user == filterUserList[k]
       IN  /\ adminInFlight' = Append(adminInFlight,
             CASE handler = "handleDeleteUser" -> handleDeleteUser(user)
               [] handler = "handleEditUser" ->
                    handleEditUser(user.id, EditedUser(user))
               [] handler = "handleDisableUser" ->
                    handleDisableUser(user.is_active, user.id, user)
               [] handler = "handleSuperUserEdit" ->
                    handleSuperUserEdit(user.is_superuser, user.id, user))
           /\ filterUserList' =
                 [filterUserList EXCEPT ![k] = RowUserAfter(handler, user)]
           /\ userList' =
                 [ j \in 1..Len(userList) |->
                     IF userList[j] = user THEN RowUserAfter(handler, user)
                                           ELSE userList[j] ]
    /\ UNCHANGED << inputValue, size, index, totalRowsCount, alertVars >>
    /\ UNCHANGED << createdUsers, localeVars, viewVars, publishVars,
                    switchLocaleVars, signUpVars, lastCall >>

\* resetFilter(), in the closure cl, with the request req already taken
\* off the queue: back to the first page, then getUsers().
resetFilter(rest, cl) ==
    /\ index' = PAGINATION_PAGE
    /\ size' = PAGINATION_SIZE
    /\ adminInFlight' = Append(rest, getUsersRequest(cl))

\* The title of the alerts of a handler.
SuccessTitle(handler) ==
    CASE handler = "handleDeleteUser" -> t("alerts.success.userDel")
      [] handler \in NewUserHandlers  -> t("alerts.success.userAdd")
      [] OTHER                        -> t("alerts.success.userEdit")

ErrorTitle(handler) ==
    CASE handler = "handleDeleteUser" -> t("alerts.error.userDel")
      [] handler \in NewUserHandlers  -> t("alerts.error.userAdd")
      [] OTHER                        -> t("alerts.error.userEdit")

\* A variant of onError that also resets the filter.
MutationOnError_Refetch(rest, req, detail) ==
    /\ errorData' = Some([title |-> ErrorTitle(req.handler),
                          list  |-> << detail >>])
    /\ resetFilter(rest, req.closure)
    /\ UNCHANGED << inputValue, totalRowsCount, userList, filterUserList,
                    successData >>

\* onSuccess of the users request.
UsersOnSuccess(rest, users) ==
    /\ totalRowsCount' = users.total_count
    /\ userList' = users.users
    /\ filterUserList' = users.users
    /\ adminInFlight' = rest
    /\ UNCHANGED << inputValue, size, index, alertVars >>

\* onSuccess of a delete or update request.
MutationOnSuccess(rest, req) ==
    /\ resetFilter(rest, req.closure)
    /\ successData' = Some([title |-> SuccessTitle(req.handler)])
    /\ UNCHANGED << inputValue, totalRowsCount, userList, filterUserList,
                    errorData >>

\* onError of a delete or update request.
MutationOnError(rest, req, detail) ==
    /\ errorData' = Some([title |-> ErrorTitle(req.handler),
                          list  |-> << detail >>])
    /\ adminInFlight' = rest
    /\ UNCHANGED << inputValue, size, index, totalRowsCount, userList,
                    filterUserList, successData >>

\* A variant of the add request's onSuccess that reports the user as
\* added without sending the update request.
NewUserOnSuccess_NoUpdate(rest, req, res) ==
    /\ resetFilter(rest, req.closure)
    /\ successData' = Some([title |-> SuccessTitle(req.handler)])
    /\ UNCHANGED << inputValue, totalRowsCount, userList, filterUserList,
                    errorData >>

\* onSuccess of the add request: the update request for the id of res,
\* with the flags of the user handleNewUser was called with.
NewUserOnSuccess(rest, req, res) ==
    /\ adminInFlight' = Append(rest,
           [handler |-> "handleNewUser.onSuccess",
            payload |-> [user_id |-> res.id,
                         user    |-> [is_active    |-> req.payload.is_active,
                                      is_superuser |-> req.payload.is_superuser]],
            closure |-> req.closure])
    /\ UNCHANGED << inputValue, size, index, totalRowsCount, userList,
                    filterUserList, alertVars >>

\* The backend's answer to an add request it accepts: the created user.
AddUserResponse(user) ==
    [id |-> NewUserId(user.username), username |-> user.username]

\* The backend accepts an add request unless it holds the username.
AddUserAccepted(user) ==
    \A c \in createdUsers : c.username # user.username

\* The i-th request succeeds; a users request is answered with users, an
\* add request with the user the backend created for it.
AdminSuccess(i, users) ==
    /\ i \in 1..Len(adminInFlight)
    /\ LET req  == adminInFlight[i]
           rest == RemoveAt(adminInFlight, i)
       IN  CASE req.handler \in MutationHandlers \cup { "handleNewUser.onSuccess" } ->
                  /\ MutationOnSuccess(rest, req)
                  /\ UNCHANGED createdUsers
             [] req.handler = "handleNewUser" ->
                  /\ AddUserAccepted(req.payload)
                  /\ createdUsers' =
                        createdUsers \cup { AddUserResponse(req.payload) }
                  /\ NewUserOnSuccess(rest, req, AddUserResponse(req.payload))
             [] OTHER ->
                  /\ UsersOnSuccess(rest, users)
                  /\ UNCHANGED createdUsers
    /\ UNCHANGED << localeVars, viewVars, publishVars, switchLocaleVars, signUpVars,
                    lastCall >>

\* The i-th request fails with the detail; onError of a users request
\* does nothing.
AdminError(i, detail) ==
    /\ i \in 1..Len(adminInFlight)
    /\ LET req  == adminInFlight[i]
           rest == RemoveAt(adminInFlight, i)
       IN  IF req.handler \in MutationHandlers \cup NewUserHandlers
           THEN MutationOnError(rest, req, detail)
           ELSE /\ adminInFlight' = rest
                /\ UNCHANGED << inputValue, size, index, totalRowsCount,
                                userList, filterUserList, alertVars >>
    /\ UNCHANGED << createdUsers, localeVars, viewVars, publishVars,
                    switchLocaleVars, signUpVars, lastCall >>

(***************************************************************************)
(* useSwitchLocale: the mutation that tells the backend the language.      *)
(***************************************************************************)
\* Invocations of the mutation in one run of the model.
MaxInvocations == 2

\* Bodies of the backend's answers, and errors a request is rejected with.
ResponseBodies == { "switched", "unchanged" }
RequestErrors == { "Network Error", "Request failed with status code 500" }

\* A variant that sends the payload with another method.
switchLocalePut_Post(payload) ==
    [method |-> "POST",
     url    |-> << "getURL(LOCALE)", "/switch/" >>,
     body   |-> payload]

\* api.put(`${getURL("LOCALE")}/switch/`, payload)
switchLocalePut(payload) ==
    [method |-> "PUT",
     url    |-> << "getURL(LOCALE)", "/switch/" >>,
     body   |-> payload]

\* switchLocaleFn returns response.data
switchLocaleFnResult(response) == response.data

\* The retry option a mutation has unless its caller passes one.
MutationRetry == 0

\* mutation.mutate(payload): the mutation function runs and sends its
\* request.
SwitchLocaleMutate(payload) ==
    /\ Len(slMutations) < MaxInvocations
    /\ slMutations' = Append(slMutations,
           [variables |-> payload, status |-> "pending",
            data |-> None, error |-> None, failureCount |-> 0])
    /\ httpLog' = Append(httpLog,
           [request  |-> switchLocalePut(payload),
            mutation |-> Len(slMutations) + 1,
            response |-> None])
    /\ UNCHANGED << localeVars, viewVars, publishVars, adminVars, alertVars,
                    signUpVars, lastCall >>

\* The request k is answered with the body: the mutation resolves.
SwitchLocaleResolve(k, body) ==
    /\ k \in 1..Len(httpLog)
    /\ httpLog[k].response = None
    /\ LET response == [status |-> 200, data |-> body]
           m == httpLog[k].mutation
       IN  /\ httpLog' = [httpLog EXCEPT ![k].response = Some(response)]
           /\ slMutations' = [slMutations EXCEPT
                  ![m].status = "success",
                  ![m].data = Some(switchLocaleFnResult(response))]
    /\ UNCHANGED << localeVars, viewVars, publishVars, adminVars, alertVars,
                    signUpVars, lastCall >>

\* The request k is rejected: the mutation is retried while its failures
\* are fewer than its retry option, and fails otherwise.
SwitchLocaleReject(k, err) ==
    /\ k \in 1..Len(httpLog)
    /\ httpLog[k].response = None
    /\ LET m == httpLog[k].mutation
           answered == [httpLog EXCEPT ![k].response = Some([error |-> err])]
       IN  IF slMutations[m].failureCount < MutationRetry
           THEN /\ httpLog' = Append(answered,
                       [request  |-> switchLocalePut(slMutations[m].variables),
                        mutation |-> m,
                        response |-> None])
                /\ slMutations' = [slMutations EXCEPT
                       ![m].failureCount = @ + 1]
           ELSE /\ httpLog' = answered
                /\ slMutations' = [slMutations EXCEPT
                       ![m].status = "error",
                       ![m].error = Some(err),
                       ![m].failureCount = @ + 1]
    /\ UNCHANGED << localeVars, viewVars, publishVars, adminVars, alertVars,
                    signUpVars, lastCall >>

(***************************************************************************)
(* SignUp: the three inputs of the form and its submit button.  The effect *)
(* that sets the button's state runs after the render that follows a       *)
(* change of state.                                                        *)
(***************************************************************************)
CONTROL_INPUT_STATE == [password |-> "", cnfPassword |-> "", username |-> ""]

\* The names of the inputs and the texts typed into them.
InputNames == { "username", "password", "cnfPassword" }
InputValues == { "", "a", "b", " " }

\* A variant of the effect that does not look at the username.
SignUpEffectDisabled_NoUsername(state) ==
    IF state.password # state.cnfPassword THEN TRUE
    ELSE IF state.password = "" \/ state.cnfPassword = "" THEN TRUE
    ELSE FALSE

\* The value the effect passes to setDisableBtn.
SignUpEffectDisabled(state) ==
    IF state.password # state.cnfPassword THEN TRUE
    ELSE IF state.password = "" \/ state.cnfPassword = "" THEN TRUE
    ELSE IF state.username = "" THEN TRUE
    ELSE FALSE

\* handleInput({ target: { name, value } }), called by the onChange of an
\* input whose text became value; the effects of a render have run before
\* the next event is handled.
handleInput(name, value) ==
    /\ ~signUpEffect
    /\ inputState[name] # value
    /\ inputState' = [inputState EXCEPT ![name] = value]
    /\ signUpEffect' = TRUE
    /\ UNCHANGED << isDisabled, localeVars, viewVars, publishVars, adminVars,
                    switchLocaleVars, alertVars, lastCall >>

\* The effect of the committed render; a change of isDisabled renders
\* again, and the effect runs once more.
SignUpEffect ==
    /\ signUpEffect
    /\ isDisabled' = SignUpEffectDisabled(inputState)
    /\ signUpEffect' = (isDisabled' # isDisabled)
    /\ UNCHANGED << inputState, localeVars, viewVars, publishVars, adminVars,
                    switchLocaleVars, alertVars, lastCall >>

\* The submit button.
SubmitButton == [type |-> "submit", disabled |-> isDisabled]

IdleSignUp ==
    /\ inputState = CONTROL_INPUT_STATE
    /\ isDisabled = TRUE
    /\ signUpEffect = FALSE

IdleSwitchLocale ==
    /\ slMutations = << >>
    /\ httpLog = << >>

IdlePublish ==
    /\ flows = None
    /\ currentFlow = None
    /\ hasIO = FALSE
    /\ playgroundOpen = FALSE
    /\ patchInFlight = << >>

IdleAdmin ==
    /\ inputValue = << >>
    /\ size = PAGINATION_SIZE
    /\ index = PAGINATION_PAGE
    /\ totalRowsCount = 0
    /\ userList = << >>
    /\ filterUserList = << >>
    /\ adminInFlight = << >>
    /\ createdUsers = { }

IdleAlerts ==
    /\ successData = None
    /\ errorData = None

IdleView ==
    /\ genericErrorProps =
           [healthCheckTimeout |-> "", fetching |-> FALSE, retry |-> "retryA"]
    /\ genericErrorView = Fragment
    /\ isBuilding = FALSE

InitView ==
    /\ IdleLocale
    /\ IdleView
    /\ IdlePublish
    /\ IdleAdmin
    /\ IdleAlerts
    /\ IdleSwitchLocale
    /\ IdleSignUp
    /\ lastCall = NoCall

NextView ==
    \/ \E p \in GenericErrorPropsSet : RenderGenericError(p)
    \/ \E id \in { "button-send", "button-stop" } : NoInputClick(id)
    \/ \E b \in BOOLEAN : SetIsBuilding(b)

SpecView == InitView /\ [][NextView]_vars

(***************************************************************************)
(* C1.  GenericErrorComponent selects the banner from the status alone:   *)
(* "serverDown" renders the fetch-error component, "timeout" the          *)
(* timeout-error component, every other value nothing; a rendered banner  *)
(* is open and carries the given retry handler and fetching flag; never   *)
(* are both banners rendered for one status.                              *)
(***************************************************************************)
BannerFollowsStatus ==
    LET p == genericErrorProps
        v == genericErrorView
    IN  /\ (v.component = "CustomFetchErrorComponent")
               <=> (p.healthCheckTimeout = "serverDown")
        /\ (v.component = "TimeoutErrorComponent")
               <=> (p.healthCheckTimeout = "timeout")
        /\ (v = Fragment)
               <=> (p.healthCheckTimeout \notin { "serverDown", "timeout" })
        /\ v # Fragment =>
               /\ v.openModal = TRUE
               /\ v.setRetry = p.retry
               /\ v.isLoadingHealth = p.fetching

BannerFollowsStatusWitness ==
    /\ genericErrorProps.healthCheckTimeout = "timeout"
    /\ genericErrorProps.fetching = TRUE
    /\ genericErrorView.component = "TimeoutErrorComponent"
    /\ genericErrorView.setRetry = "retryB"

OneBuildControl ==
    { b.testid : b \in NoInputView(isBuilding) } =
        IF isBuilding THEN { "button-stop" } ELSE { "button-send" }

ClickCallsByBuilding ==
    /\ NoInputClick("button-send") =>
           /\ ~isBuilding
           /\ lastCall' = [fn |-> "sendMessage", args |-> << [repeat |-> 1] >>]
    /\ NoInputClick("button-stop") =>
           /\ isBuilding
           /\ lastCall' = [fn |-> "stopBuilding", args |-> << >>]
    /\ (lastCall' # lastCall /\ lastCall'.fn = "sendMessage") => ~isBuilding
    /\ (lastCall' # lastCall /\ lastCall'.fn = "stopBuilding") => isBuilding

(***************************************************************************)
(* C5.  NoInputView exposes exactly one of the two build controls, chosen *)
(* by isBuilding: the run button alone when no build runs, whose click    *)
(* calls sendMessage with repeat = 1, and the stop button alone when one  *)
(* runs, whose click calls stopBuilding.  So sendMessage is never called  *)
(* from this view during a build, nor stopBuilding outside one.           *)
(***************************************************************************)
BuildControlsExclusive == []OneBuildControl /\ [][ClickCallsByBuilding]_vars

BuildControlsExclusiveWitness ==
    /\ isBuilding
    /\ lastCall = [fn |-> "stopBuilding", args |-> << >>]

InitLocale ==
    /\ navigatorLanguage \in BrowserLanguages
    /\ localStorage \in StoredValues
    /\ lang = InitialLang(localStorage, navigatorLanguage)
    /\ i18nLanguage \in Language
    /\ appEffectLang = None
    /\ memo = [h \in Hooks |-> MountHook(h, i18nLanguage)]
    /\ renderedT = [h \in Hooks |-> i18nLanguage]
    /\ lastCall = NoCall
    /\ IdleView
    /\ IdlePublish
    /\ IdleAdmin
    /\ IdleAlerts
    /\ IdleSwitchLocale
    /\ IdleSignUp

NextLocale ==
    \/ \E l \in Language : LangflowCountsClick(l)
    \/ AppLangEffect
    \/ \E h \in Hooks : RenderHook(h)

SpecLocale == InitLocale /\ [][NextLocale]_vars

(***************************************************************************)
(* C2.  After any sequence of language switches, in a component that      *)
(* stays mounted, every display string a locale hook returns is the       *)
(* translation of its key in the currently active language: once the      *)
(* component has rendered with the current t, the value of each hook is   *)
(* what its factory yields for the active language.                       *)
(***************************************************************************)
HooksFollowLanguage ==
    \A h \in Hooks :
        renderedT[h] = i18nLanguage =>
            HookValue(h) = HookFactory(h, i18nLanguage)

(***************************************************************************)
(* C3.  setLanguage(l) sets the store's lang to l and writes the JSON     *)
(* encoding of l under 'language'; after setLanguage calls the persisted  *)
(* value decodes to exactly the store's current lang.                     *)
(***************************************************************************)
SetLanguagePersists ==
    lastCall.fn = "setLanguage" =>
        /\ lang = lastCall.args[1]
        /\ localStorage = Some(JSONstringify(lang))
        /\ JSONparse(localStorage[1]) = lang

SetLanguagePersistsWitness ==
    /\ lastCall = [fn |-> "setLanguage", args |-> << ZH >>]
    /\ navigatorLanguage = << "e", "n", "-", "U", "S" >>
    /\ lang = ZH
    /\ localStorage = Some(<< "\"", "z", "h", "\"" >>)

(***************************************************************************)
(* C4.  The language store's lang is 'en' or 'zh' in every reachable      *)
(* state, the initial one included, whatever the browser language and     *)
(* whatever was stored before.                                            *)
(***************************************************************************)
LangIsLanguage == lang \in Language

(***************************************************************************)
(* The publish dropdown on a loaded flow page.                             *)
(***************************************************************************)
FlowLists == { << [id |-> "f1", access_type |-> a],
                  [id |-> "f2", access_type |-> b] >> : a, b \in AccessTypes }

InitPublish ==
    /\ IdleLocale
    /\ IdleView
    /\ IdleAdmin
    /\ IdleAlerts
    /\ IdleSwitchLocale
    /\ IdleSignUp
    /\ lastCall = NoCall
    /\ flows \in { None } \cup { Some(l) : l \in FlowLists }
    /\ currentFlow \in
         IF flows = None
         THEN { None } \cup { Some(f) : f \in Flows }
         ELSE { None } \cup { Some(flows[1][k]) : k \in 1..Len(flows[1]) }
    /\ hasIO \in BOOLEAN
    /\ playgroundOpen = FALSE
    /\ patchInFlight = << >>

NextPublish ==
    \/ ClickPublishSwitch
    \/ \E i \in 1..MaxInFlight : PatchSuccess(i)
    \/ \E i \in 1..MaxInFlight, m \in ErrorMessages : PatchError(i, m)
    \/ \E b \in BOOLEAN : SetHasIO(b)
    \/ ClickPlayground
    \/ ClosePlayground
    \/ AddFlow
    \/ \E k \in 1..3 : RemoveFlow(k)
    \/ \E k \in 1..3 : UpdateFlow(k)

SpecPublish == InitPublish /\ [][NextPublish]_vars

\* A request was issued in this step: the queue grew by its last element.
PatchIssued ==
    /\ Len(patchInFlight') = Len(patchInFlight) + 1
    /\ SubSeq(patchInFlight', 1, Len(patchInFlight)) = patchInFlight

SwitchShowsAccessType ==
    PublishSwitch.checked =
        (currentFlow # None /\ currentFlow[1].access_type = "PUBLIC")

ClickTogglesAccessType ==
    /\ ClickPublishSwitch => PatchIssued
    /\ Len(patchInFlight') > Len(patchInFlight) =>
         /\ PatchIssued
         /\ LET req == patchInFlight'[Len(patchInFlight')]
            IN  /\ currentFlow # None => req.id = currentFlow[1].id
                /\ currentFlow = None => req.id = ""
                /\ req.access_type =
                     IF currentFlow # None
                        /\ currentFlow[1].access_type = "PUBLIC"
                     THEN "PRIVATE"
                     ELSE "PUBLIC"

(***************************************************************************)
(* C6.  The publish switch is a toggle on the current flow's access type: *)
(* its checked state equals (currentFlow.access_type = "PUBLIC"), and a   *)
(* click issues one update request for the current flow's id whose        *)
(* access_type is "PRIVATE" when the flow is PUBLIC and "PUBLIC"          *)
(* otherwise.                                                             *)
(***************************************************************************)
PublishSwitchToggles ==
    []SwitchShowsAccessType /\ [][ClickTogglesAccessType]_vars

PublishSwitchTogglesWitness ==
    /\ currentFlow = Some([id |-> "f2", access_type |-> "PUBLIC"])
    /\ patchInFlight = << [id |-> "f2", access_type |-> "PRIVATE",
                           flows |-> flows] >>

DisabledWithoutIO ==
    ~hasIO =>
        /\ PublishSwitch.disabled
        /\ ShareablePlaygroundItem.disabled
        /\ PlaygroundButton(hasIO).component = "ShadTooltip"
        /\ PlaygroundButton(hasIO).child = "playground-btn-flow"

ActsOnlyWithIO ==
    /\ Len(patchInFlight') > Len(patchInFlight) => hasIO
    /\ (~playgroundOpen /\ playgroundOpen') => hasIO

(***************************************************************************)
(* C7.  While hasIO is false the publish switch and the                   *)
(* shareable-playground item are disabled, so no access-type update       *)
(* request is issued in a state where hasIO is false; and the playground  *)
(* button opens the IO modal only when hasIO is true, a disabled button   *)
(* inside a tooltip being rendered otherwise.                             *)
(***************************************************************************)
NoPublishWithoutIO == []DisabledWithoutIO /\ [][ActsOnlyWithIO]_vars

NoPublishWithoutIOWitness ==
    /\ ~hasIO
    /\ Len(patchInFlight) = 1
    /\ playgroundOpen

RequestThenStore ==
    /\ Len(patchInFlight') > Len(patchInFlight) =>
         UNCHANGED << flows, currentFlow >>
    /\ \A i \in 1..Len(patchInFlight), m \in ErrorMessages :
         PatchError(i, m) =>
           /\ UNCHANGED << flows, currentFlow >>
           /\ errorData' # None
           /\ errorData'[1].list = << m >>
    /\ (patchInFlight' # patchInFlight
          /\ << flows, currentFlow >>' # << flows, currentFlow >>) =>
         \E i \in 1..Len(patchInFlight) : PatchSuccess(i)

(***************************************************************************)
(* C8.  For the publish toggle the data flow is request-then-store: the   *)
(* flows list and the current flow are modified only in the success       *)
(* callback of the update request, never before the response; when the   *)
(* request fails they are left unchanged and an error alert carrying the  *)
(* error's message is raised.                                             *)
(***************************************************************************)
StoreOnlyAfterResponse == [][RequestThenStore]_vars

StoreOnlyAfterResponseWitness ==
    /\ errorData # None
    /\ errorData[1].list = << << "Network Error" >> >>
    /\ patchInFlight = << >>
    /\ currentFlow = Some([id |-> "f1", access_type |-> "PRIVATE"])
    /\ flows = Some(<< [id |-> "f1", access_type |-> "PRIVATE"],
                       [id |-> "f2", access_type |-> "PUBLIC"] >>)

\* The flow the backend answers a request with.
UpdatedFlow(req) == [id |-> req.id, access_type |-> req.access_type]

SuccessStep ==
    \A i \in 1..Len(patchInFlight) :
        PatchSuccess(i) =>
            LET req     == patchInFlight[i]
                updated == UpdatedFlow(req)
            IN  /\ req.flows # None =>
                     /\ flows' # None
                     /\ Len(flows'[1]) = Len(req.flows[1])
                     /\ \A k \in 1..Len(req.flows[1]) :
                           /\ flows'[1][k].id = req.flows[1][k].id
                           /\ req.flows[1][k].id # updated.id =>
                                 flows'[1][k] = req.flows[1][k]
                           /\ req.flows[1][k].id = updated.id =>
                                 flows'[1][k] = updated
                     /\ currentFlow' = Some(updated)
                     /\ UNCHANGED errorData
                /\ req.flows = None =>
                     /\ errorData' =
                           Some([title |-> t("flow.share.error.saveFailedTitle"),
                                 list  |-> << t("flow.share.error.flowsUndefined") >>])
                     /\ UNCHANGED << flows, currentFlow >>

KeepsOtherChanges ==
    \A i \in 1..Len(patchInFlight) :
        (PatchSuccess(i) /\ flows # None /\ patchInFlight[i].flows # None) =>
            /\ flows' # None
            /\ Len(flows'[1]) = Len(flows[1])
            /\ \A k \in 1..Len(flows[1]) :
                  flows[1][k].id # patchInFlight[i].id =>
                      flows'[1][k] = flows[1][k]

(***************************************************************************)
(* C18.  What other actions did to the flows store while a publish-toggle *)
(* request was in flight (a flow added, removed or updated between the    *)
(* click and the response) is still in the store once the success         *)
(* callback has run: the callback changes the entry of the toggled flow   *)
(* and nothing else of the list the store holds at that moment.           *)
(***************************************************************************)
ConcurrentChangesKept == [][KeepsOtherChanges]_vars

(***************************************************************************)
(* The admin page, from the moment its first getUsers() was sent.          *)
(***************************************************************************)
InitAdmin ==
    /\ IdleLocale
    /\ IdleView
    /\ IdlePublish
    /\ IdleAlerts
    /\ IdleSwitchLocale
    /\ IdleSignUp
    /\ lastCall = NoCall
    /\ inputValue = << >>
    /\ size = PAGINATION_SIZE
    /\ index = PAGINATION_PAGE
    /\ totalRowsCount = 0
    /\ userList = << >>
    /\ filterUserList = << >>
    /\ adminInFlight =
         << getUsersRequest([size |-> PAGINATION_SIZE,
                             index |-> PAGINATION_PAGE]) >>
    /\ createdUsers = { }

NextAdmin ==
    \/ \E i \in PageIndexes, s \in PageSizes : handleChangePagination(i, s)
    \/ \E input \in SearchInputs : handleFilterUsers(input)
    \/ ClearSearch
    \/ \E k \in 1..2, h \in MutationHandlers : RowAction(k, h)
    \/ \E user \in NewUserInputs : NewUser(user)
    \/ \E i \in 1..Len(adminInFlight), u \in UsersResponses : AdminSuccess(i, u)
    \/ \E i \in 1..Len(adminInFlight), d \in ErrorDetails : AdminError(i, d)

SpecAdmin == InitAdmin /\ [][NextAdmin]_vars

FailedMutationStep ==
    /\ \A i \in 1..Len(adminInFlight), d \in ErrorDetails :
         (adminInFlight[i].handler \in MutationHandlers /\ AdminError(i, d)) =>
           /\ errorData' # None
           /\ errorData'[1].list = << d >>
           /\ successData' = successData
           /\ UNCHANGED << index, size, filterUserList >>
           /\ adminInFlight' = RemoveAt(adminInFlight, i)
    /\ errorData' # errorData =>
           /\ successData' = successData
           /\ UNCHANGED << index, size, filterUserList >>
           /\ Len(adminInFlight') = Len(adminInFlight) - 1
           /\ \A i \in 1..Len(adminInFlight') :
                adminInFlight'[i].handler # "getUsers"
                  \/ \E j \in 1..Len(adminInFlight) :
                       adminInFlight[j] = adminInFlight'[i]

LastRequest(q) == q[Len(q)]

RequestsBy(q, handler) == { k \in 1..Len(q) : q[k].handler = handler }

\* The i-th request of the queue succeeds in this step.
Succeeds(i) == \E u \in UsersResponses : AdminSuccess(i, u)

\* The update request of handleNewUser exists only for a user whose add
\* request succeeded.
UpdateFollowsAdd ==
    \A k \in RequestsBy(adminInFlight, "handleNewUser.onSuccess") :
        \E c \in createdUsers : c.id = adminInFlight[k].payload.user_id

NewUserStep ==
    \* the update request is sent by the success of the add request only
    /\ Cardinality(RequestsBy(adminInFlight', "handleNewUser.onSuccess"))
         > Cardinality(RequestsBy(adminInFlight, "handleNewUser.onSuccess")) =>
         \E i \in RequestsBy(adminInFlight, "handleNewUser") :
            /\ Succeeds(i)
            /\ LastRequest(adminInFlight').payload =
                 [user_id |-> NewUserId(adminInFlight[i].payload.username),
                  user    |-> [is_active    |-> adminInFlight[i].payload.is_active,
                               is_superuser |-> adminInFlight[i].payload.is_superuser]]
    \* the success of the add request alone reports nothing and resets nothing
    /\ \A i \in RequestsBy(adminInFlight, "handleNewUser") :
         Succeeds(i) =>
            /\ UNCHANGED << successData, errorData, index, size >>
            /\ RequestsBy(adminInFlight', "getUsers") =
                 { k \in 1..Len(adminInFlight') :
                     \E j \in RequestsBy(adminInFlight, "getUsers") :
                        adminInFlight'[k] = adminInFlight[j] }
    \* the success of the update request reports the user and resets the list
    /\ \A i \in RequestsBy(adminInFlight, "handleNewUser.onSuccess") :
         Succeeds(i) =>
            /\ successData' = Some([title |-> t("alerts.success.userAdd")])
            /\ index' = PAGINATION_PAGE
            /\ size' = PAGINATION_SIZE
            /\ LastRequest(adminInFlight').handler = "getUsers"
    /\ (successData' # successData
          /\ successData' = Some([title |-> t("alerts.success.userAdd")])) =>
         \E i \in RequestsBy(adminInFlight, "handleNewUser.onSuccess") :
            Succeeds(i)
    \* a failure of either request raises the error alert and ends the sequence
    /\ \A i \in 1..Len(adminInFlight), d \in ErrorDetails :
         (adminInFlight[i].handler \in NewUserHandlers /\ AdminError(i, d)) =>
            /\ errorData' = Some([title |-> t("alerts.error.userAdd"),
                                  list  |-> << d >>])
            /\ adminInFlight' = RemoveAt(adminInFlight, i)
            /\ UNCHANGED << successData, index, size, createdUsers >>

ResettingHandlers == MutationHandlers \cup { "handleNewUser.onSuccess" }

ResetStep ==
    \A i \in 1..Len(adminInFlight) :
        (adminInFlight[i].handler \in ResettingHandlers /\ Succeeds(i)) =>
            /\ index' = PAGINATION_PAGE
            /\ size' = PAGINATION_SIZE
            /\ LastRequest(adminInFlight').handler = "getUsers"
            /\ LastRequest(adminInFlight').payload =
                 [skip |-> 0, limit |-> PAGINATION_SIZE]

(***************************************************************************)
(* C12.  After a successful delete, edit, toggle or add, resetFilter puts *)
(* the paginator on page PAGINATION_PAGE with size PAGINATION_SIZE and    *)
(* the refetch it sends asks for that first page: skip = 0 and            *)
(* limit = PAGINATION_SIZE, whatever index and size were selected.        *)
(***************************************************************************)
ResetRefetchesFirstPage == [][ResetStep]_vars

PaginationStep ==
    /\ \A pageIndex \in PageIndexes, pageSize \in PageSizes :
         handleChangePagination(pageIndex, pageSize) =>
            /\ index' = pageIndex
            /\ size' = pageSize
            /\ LastRequest(adminInFlight').handler = "handleChangePagination"
            /\ LastRequest(adminInFlight').payload =
                 [skip |-> pageSize * (pageIndex - 1), limit |-> pageSize]
    /\ Cardinality(RequestsBy(adminInFlight', "handleChangePagination"))
         > Cardinality(RequestsBy(adminInFlight, "handleChangePagination")) =>
            /\ LastRequest(adminInFlight').payload.skip = size' * (index' - 1)
            /\ LastRequest(adminInFlight').payload.limit = size'
    /\ \A i \in RequestsBy(adminInFlight, "handleChangePagination"),
          u \in UsersResponses :
         AdminSuccess(i, u) =>
            /\ totalRowsCount' = u.total_count
            /\ userList' = u.users
            /\ filterUserList' = u.users

(***************************************************************************)
(* C13.  handleChangePagination(pageIndex, pageSize) stores the new index *)
(* and size and sends a users request with                                *)
(* skip = pageSize * (pageIndex - 1) and limit = pageSize, computed from  *)
(* its arguments and not from the state before; on success the total row  *)
(* count, the full list and the displayed list are replaced by the        *)
(* response.                                                              *)
(***************************************************************************)
PaginationUsesArguments == [][PaginationStep]_vars

PaginationUsesArgumentsWitness ==
    /\ index = 2
    /\ size = 24
    /\ totalRowsCount = 2
    /\ adminInFlight =
         << [handler |-> "handleChangePagination",
             payload |-> [skip |-> 24, limit |-> 24]] >>

(***************************************************************************)
(* C14.  In every reachable state of the admin page: when the search      *)
(* input is not empty every displayed user's username contains the input, *)
(* case-insensitively; when it is empty the displayed list is the full    *)
(* list of the last fetched page.                                         *)
(***************************************************************************)
DisplayedMatchesSearch ==
    /\ inputValue # << >> =>
         \A k \in 1..Len(filterUserList) :
            includes(toLowerCase(filterUserList[k].username),
                     toLowerCase(inputValue))
    /\ inputValue = << >> => filterUserList = userList

AddErrorStep ==
    \A i \in 1..Len(adminInFlight), d \in ErrorDetails :
        (AdminError(i, d)
           /\ errorData' = Some([title |-> t("alerts.error.userAdd"),
                                 list  |-> << d >>])) =>
            /\ createdUsers' = createdUsers
            /\ "user_id" \in DOMAIN adminInFlight[i].payload =>
                 \A c \in createdUsers' :
                    c.id # adminInFlight[i].payload.user_id

(***************************************************************************)
(* C15.  Whenever the 'user add' error alert is raised, the creation it   *)
(* reports has created no user on the backend: the failed request leaves  *)
(* the backend's users unchanged and the user the alert is about is not   *)
(* among them.                                                            *)
(***************************************************************************)
AddErrorMeansNoUser == [][AddErrorStep]_vars

ToggleStep ==
    \A k \in 1..Len(filterUserList) :
        /\ RowAction(k, "handleDisableUser") =>
             LET user == filterUserList[k]
                 sent == LastRequest(adminInFlight').payload
             IN  /\ sent.user_id = user.id
                 /\ DOMAIN sent.user = DOMAIN user
                 /\ sent.user.is_active = ~user.is_active
                 /\ \A f \in DOMAIN user \ { "is_active" } :
                       sent.user[f] = user[f]
                 /\ UNCHANGED << filterUserList, userList >>
        /\ RowAction(k, "handleSuperUserEdit") =>
             LET user == filterUserList[k]
                 sent == LastRequest(adminInFlight').payload
             IN  /\ sent.user_id = user.id
                 /\ DOMAIN sent.user = DOMAIN user
                 /\ sent.user.is_superuser = ~user.is_superuser
                 /\ \A f \in DOMAIN user \ { "is_superuser" } :
                       sent.user[f] = user[f]
                 /\ UNCHANGED << filterUserList, userList >>

(***************************************************************************)
(* C16.  handleDisableUser and handleSuperUserEdit send a copy of the     *)
(* row's user in which is_active (respectively is_superuser) alone is     *)
(* changed, to the negation of its value, every other field being equal   *)
(* to the original; the user held in the displayed list is not changed    *)
(* by the handler.                                                        *)
(***************************************************************************)
TogglesSendCopy == [][ToggleStep]_vars

TogglesSendCopyWitness ==
    /\ filterUserList = << Bob >>
    /\ userList = << Alice, Bob >>
    /\ adminInFlight =
         << [handler |-> "handleSuperUserEdit",
             payload |-> [user_id |-> "u2",
                          user |-> [Bob EXCEPT !.is_superuser = FALSE]],
             closure |-> [size |-> 24, index |-> 2]] >>

(***************************************************************************)
(* A component that holds the switch-locale mutation.                      *)
(***************************************************************************)
InitSwitchLocale ==
    /\ IdleLocale
    /\ IdleView
    /\ IdlePublish
    /\ IdleAdmin
    /\ IdleAlerts
    /\ IdleSwitchLocale
    /\ IdleSignUp
    /\ lastCall = NoCall

NextSwitchLocale ==
    \/ \E l \in Language : SwitchLocaleMutate([lang |-> l])
    \/ \E k \in 1..Len(httpLog), b \in ResponseBodies :
          SwitchLocaleResolve(k, b)
    \/ \E k \in 1..Len(httpLog), e \in RequestErrors :
          SwitchLocaleReject(k, e)

SpecSwitchLocale == InitSwitchLocale /\ [][NextSwitchLocale]_vars

\* The requests the m-th invocation of the mutation has sent.
RequestsOf(m) == { k \in 1..Len(httpLog) : httpLog[k].mutation = m }

InitSignUp ==
    /\ IdleLocale
    /\ IdleView
    /\ IdlePublish
    /\ IdleAdmin
    /\ IdleAlerts
    /\ IdleSwitchLocale
    /\ lastCall = NoCall
    /\ inputState = CONTROL_INPUT_STATE
    /\ isDisabled = TRUE
    /\ signUpEffect = TRUE

NextSignUp ==
    \/ \E name \in InputNames, value \in InputValues : handleInput(name, value)
    \/ SignUpEffect

SpecSignUp == InitSignUp /\ [][NextSignUp]_vars

\* The inputs do not make a valid sign-up.
SignUpInvalid ==
    \/ inputState.username = ""
    \/ inputState.password = ""
    \/ inputState.cnfPassword = ""
    \/ inputState.password # inputState.cnfPassword

(***************************************************************************)
(* C19.  The submit button of the sign-up form is disabled at first and,   *)
(* once the effect of an input change has run, is disabled exactly when    *)
(* the username is empty, or the password is empty, or the confirmation is *)
(* empty, or the password differs from the confirmation; it is enabled in  *)
(* every other case.                                                       *)
(***************************************************************************)
SubmitDisabledIffInvalid ==
    /\ inputState = CONTROL_INPUT_STATE => SubmitButton.disabled
    /\ ~signUpEffect => (SubmitButton.disabled <=> SignUpInvalid)

SubmitDisabledIffInvalidWitness ==
    /\ ~signUpEffect
    /\ ~SubmitButton.disabled
    /\ inputState = [password |-> "a", cnfPassword |-> "a", username |-> " "]

====
